---- MODULE Spec2Model ----
(***************************************************************************)
(* Model of main.py: the recursive directory walk build_tree, its three    *)
(* consumers (display_tree, json.dump, generate_tree_image) and the         *)
(* __main__ block that runs them in sequence over a filesystem.             *)
(*                                                                          *)
(* Strings are sequences of Unicode code points, so that startswith('.'),   *)
(* concatenation (graph identifiers, prefixes) and sorted() are computed    *)
(* as Python computes them.                                                 *)
(***************************************************************************)
EXTENDS Integers, Sequences, FiniteSets, TLC

\* ------------------------------------------------------------------ bounds
\* Number of filesystem entries below the analyzed directory.
MaxEntries == 3
\* Longest path (in names) below the analyzed directory.
MaxPathLen == 2
\* Largest value given to --max-depth.
MaxDepthArg == 2
\* Number of invocations of the program over the same directory.
MaxRuns == 2

\* ------------------------------------------------------- string constants
\* "B", "a", ".h", "a_leaf": the entry names the environment may create.
\* "B" < "a" in code-point order, ".h" is hidden, "a_leaf" is "a" + "_leaf".
NameB == <<66>>
NameA == <<97>>
NameHidden == <<46, 104>>
NameALeaf == <<97, 95, 108, 101, 97, 102>>
EntryNames == {NameB, NameA, NameHidden, NameALeaf}

\* "... (maximum depth reached)"
DepthMarker ==
    <<46, 46, 46, 32, 40, 109, 97, 120, 105, 109, 117, 109, 32, 100, 101, 112,
      116, 104, 32, 114, 101, 97, 99, 104, 101, 100, 41>>
\* "🚫 Access Denied"
AccessDeniedLabel ==
    <<128683, 32, 65, 99, 99, 101, 115, 115, 32, 68, 101, 110, 105, 101, 100>>
\* "directory_tree.json"
JsonName ==
    <<100, 105, 114, 101, 99, 116, 111, 114, 121, 95, 116, 114, 101, 101, 46,
      106, 115, 111, 110>>
\* "directory_tree.png"
PngName ==
    <<100, 105, 114, 101, 99, 116, 111, 114, 121, 95, 116, 114, 101, 101, 46,
      112, 110, 103>>
\* "/r": os.path.abspath(args.directory)
RootPath == <<47, 114>>
\* "📁 Directory Tree: "
HeaderText ==
    <<128193, 32, 68, 105, 114, 101, 99, 116, 111, 114, 121, 32, 84, 114, 101,
      101, 58, 32>>
\* "❌ Error: The directory '" and "' does not exist."
ErrorTextHead ==
    <<10060, 32, 69, 114, 114, 111, 114, 58, 32, 84, 104, 101, 32, 100, 105,
      114, 101, 99, 116, 111, 114, 121, 32, 39>>
ErrorTextTail ==
    <<39, 32, 100, 111, 101, 115, 32, 110, 111, 116, 32, 101, 120, 105, 115,
      116, 46>>
\* "📄 The directory tree has been saved as '"
JsonSavedText ==
    <<128196, 32, 84, 104, 101, 32, 100, 105, 114, 101, 99, 116, 111, 114, 121,
      32, 116, 114, 101, 101, 32, 104, 97, 115, 32, 98, 101, 101, 110, 32, 115,
      97, 118, 101, 100, 32, 97, 115, 32, 39>>
\* "🖼️ The tree image has been saved as '"
PngSavedText ==
    <<128444, 65039, 32, 84, 104, 101, 32, 116, 114, 101, 101, 32, 105, 109,
      97, 103, 101, 32, 104, 97, 115, 32, 98, 101, 101, 110, 32, 115, 97, 118,
      101, 100, 32, 97, 115, 32, 39>>
\* "'"
Quote == <<39>>
\* "/", "_leaf"
Slash == <<47>>
LeafSuffix == <<95, 108, 101, 97, 102>>
\* "├── ", "└── ", "│   ", "    "
BranchMid == <<9500, 9472, 9472, 32>>
BranchLast == <<9492, 9472, 9472, 32>>
PrefixMid == <<9474, 32, 32, 32>>
PrefixLast == <<32, 32, 32, 32>>

\* --------------------------------------------------------- Python values
\* None, str and dict.  A dict is the sequence of its (key, value) items in
\* insertion order, which is the order .items() and json.dump follow.
PyNone == [t |-> "None", s |-> <<>>, items |-> <<>>]
PyStr(s) == [t |-> "str", s |-> s, items |-> <<>>]
PyDict(items) == [t |-> "dict", s |-> <<>>, items |-> items]
IsDict(v) == v.t = "dict"
IsStr(v) == v.t = "str"
IsNone(v) == v.t = "None"

DictHas(d, key) == \E i \in 1..Len(d.items) : d.items[i].k = key
DictGet(d, key) ==
    d.items[CHOOSE i \in 1..Len(d.items) : d.items[i].k = key].v

\* d[key] = value: an existing key keeps its position, a new key is appended.
DictSet(d, key, value) ==
    IF DictHas(d, key)
    THEN PyDict([i \in 1..Len(d.items) |->
                    IF d.items[i].k = key THEN [k |-> key, v |-> value]
                    ELSE d.items[i]])
    ELSE PyDict(Append(d.items, [k |-> key, v |-> value]))

\* Mutant of StartsWithDot: endswith('.') in place of startswith('.').
StartsWithDot_EndsWith(name) == Len(name) > 0 /\ name[Len(name)] = 46

\* str.startswith('.')
StartsWithDot(name) == Len(name) > 0 /\ name[1] = 46

\* Python's str "<": lexicographic on code points, a proper prefix is less.
StrLess(a, b) ==
    \E i \in 1..(Len(a) + 1) :
        /\ \A j \in 1..(i - 1) : j <= Len(b) /\ a[j] = b[j]
        /\ \/ i = Len(a) + 1 /\ Len(b) >= i
           \/ i <= Len(a) /\ i <= Len(b) /\ a[i] < b[i]

\* Mutant of sorted: sorted(..., reverse=True).
RECURSIVE sorted_Descending(_)
sorted_Descending(S) ==
    IF S = {} THEN <<>>
    ELSE LET m == CHOOSE x \in S : \A y \in S \ {x} : StrLess(y, x)
         IN  <<m>> \o sorted_Descending(S \ {m})

\* sorted(): the ascending list of a collection of distinct strings.
RECURSIVE sorted(_)
sorted(S) ==
    IF S = {} THEN <<>>
    ELSE LET m == CHOOSE x \in S : \A y \in S \ {x} : StrLess(x, y)
         IN  <<m>> \o sorted(S \ {m})

\* ------------------------------------------------------------ filesystem
\* An entry is [path, kind, list]: path is the sequence of names below the
\* analyzed directory (<<>> is the directory itself), kind is "file" or
\* "dir", list is what listing the directory does: "ok", "EACCES" (no read
\* permission) or "EIO" (any other failure).
RootDir == [path |-> <<>>, kind |-> "dir", list |-> "ok"]
RootFile == [path |-> <<>>, kind |-> "file", list |-> "ok"]
FileAt(p) == [path |-> p, kind |-> "file", list |-> "ok"]
DirAt(p) == [path |-> p, kind |-> "dir", list |-> "ok"]
ListModes == {"ok", "EACCES", "EIO"}

Paths(fsys) == {e.path : e \in fsys}
Entry(fsys, p) == CHOOSE e \in fsys : e.path = p
\* os.path.exists
exists(fsys, p) == p \in Paths(fsys)
\* os.path.isdir
isdir(fsys, p) == exists(fsys, p) /\ Entry(fsys, p).kind = "dir"
\* os.path.join(directory, item)
join(directory, item) == Append(directory, item)

\* os.listdir: the names in the directory, or the exception it raises.
listdir(fsys, p) ==
    IF ~exists(fsys, p) THEN [exc |-> "FileNotFoundError", names |-> {}]
    ELSE IF ~isdir(fsys, p) THEN [exc |-> "NotADirectoryError", names |-> {}]
    ELSE IF Entry(fsys, p).list = "EACCES"
         THEN [exc |-> "PermissionError", names |-> {}]
    ELSE IF Entry(fsys, p).list = "EIO" THEN [exc |-> "OSError", names |-> {}]
    ELSE [exc |-> "none",
          names |-> {q[Len(q)] : q \in {x \in Paths(fsys) :
                        Len(x) = Len(p) + 1 /\ SubSeq(x, 1, Len(p)) = p}}]

\* open(path, "w") / write_png: creates or truncates a regular file, unless
\* the path is a directory or is not inside one.
OpenError(fsys, p) ==
    IF ~isdir(fsys, SubSeq(p, 1, Len(p) - 1)) THEN "NotADirectoryError"
    ELSE IF isdir(fsys, p) THEN "IsADirectoryError"
    ELSE "none"
WriteFile(fsys, p) ==
    {e \in fsys : e.path # p} \cup {FileAt(p)}

\* ------------------------------------------------------------ build_tree
\* --max-depth: given = FALSE is None.
NoMaxDepth == [given |-> FALSE, k |-> 0]
MaxDepthOf(k) == [given |-> TRUE, k |-> k]

Return(v) == [exc |-> "none", val |-> v]
Raise(e) == [exc |-> e, val |-> PyNone]

RECURSIVE build_tree(_, _, _, _, _)
RECURSIVE build_tree_loop(_, _, _, _, _, _, _, _)

\* The for loop of build_tree from item i on; tree is the dict built so far.
\* An exception raised by a recursive call leaves the loop.
build_tree_loop(fsys, directory, items, i, tree, show_hidden, max_depth, depth) ==
    IF i > Len(items) THEN Return(tree)
    ELSE LET item == items[i]
             full_path == join(directory, item)
         IN  IF ~show_hidden /\ StartsWithDot(item)
             THEN build_tree_loop(fsys, directory, items, i + 1, tree,
                                  show_hidden, max_depth, depth)
             ELSE IF isdir(fsys, full_path)
             THEN LET sub == build_tree(fsys, full_path, show_hidden,
                                        max_depth, depth + 1)
                  IN  IF sub.exc # "none" THEN [exc |-> sub.exc, val |-> tree]
                      ELSE build_tree_loop(fsys, directory, items, i + 1,
                                           DictSet(tree, item, sub.val),
                                           show_hidden, max_depth,
                                           depth)
             ELSE build_tree_loop(fsys, directory, items, i + 1,
                                  DictSet(tree, item, PyNone),
                                  show_hidden, max_depth, depth)

\* Mutant of build_tree: current_depth > max_depth in place of >=.
build_tree_DepthGreater(fsys, directory, show_hidden, max_depth, current_depth) ==
    IF max_depth.given /\ current_depth > max_depth.k
    THEN Return(PyStr(DepthMarker))
    ELSE LET ls == listdir(fsys, directory)
             body == IF ls.exc # "none"
                     THEN [exc |-> ls.exc, val |-> PyDict(<<>>)]
                     ELSE build_tree_loop(fsys, directory, sorted(ls.names),
                                          1, PyDict(<<>>), show_hidden,
                                          max_depth, current_depth)
         IN  IF body.exc = "none" THEN Return(body.val)
             ELSE IF body.exc = "PermissionError"
             THEN Return(DictSet(body.val, AccessDeniedLabel, PyNone))
             ELSE Raise(body.exc)

\* Mutant of build_tree: except OSError in place of except PermissionError.
build_tree_CatchAll(fsys, directory, show_hidden, max_depth, current_depth) ==
    IF max_depth.given /\ current_depth >= max_depth.k
    THEN Return(PyStr(DepthMarker))
    ELSE LET ls == listdir(fsys, directory)
             body == IF ls.exc # "none"
                     THEN [exc |-> ls.exc, val |-> PyDict(<<>>)]
                     ELSE build_tree_loop(fsys, directory, sorted(ls.names),
                                          1, PyDict(<<>>), show_hidden,
                                          max_depth, current_depth)
         IN  IF body.exc = "none" THEN Return(body.val)
             ELSE Return(DictSet(body.val, AccessDeniedLabel, PyNone))

build_tree(fsys, directory, show_hidden, max_depth, current_depth) ==
    IF max_depth.given /\ current_depth >= max_depth.k
    THEN Return(PyStr(DepthMarker))
    ELSE LET ls == listdir(fsys, directory)
             body == IF ls.exc # "none"
                     THEN [exc |-> ls.exc, val |-> PyDict(<<>>)]
                     ELSE build_tree_loop(fsys, directory, sorted(ls.names),
                                          1, PyDict(<<>>), show_hidden,
                                          max_depth, current_depth)
         IN  IF body.exc = "none" THEN Return(body.val)
             ELSE IF body.exc = "PermissionError"
             THEN Return(DictSet(body.val, AccessDeniedLabel, PyNone))
             ELSE Raise(body.exc)

\* ---------------------------------------------------------- display_tree
\* print(text): the lines that text followed by a newline adds to stdout.
RECURSIVE SplitLines(_, _, _)
SplitLines(text, i, cur) ==
    IF i > Len(text) THEN <<cur>>
    ELSE IF text[i] = 10 THEN <<cur>> \o SplitLines(text, i + 1, <<>>)
    ELSE SplitLines(text, i + 1, Append(cur, text[i]))

print(text) == SplitLines(text, 1, <<>>)

RECURSIVE display_tree(_, _)
RECURSIVE display_tree_loop(_, _, _)

\* Mutant of display_tree_loop: the sentinel string is printed with the
\* branch symbol of its directory.
display_tree_loop_SentinelGlyph(tree, prefix, i) ==
    IF i > Len(tree.items) THEN <<>>
    ELSE LET name == tree.items[i].k
             content == tree.items[i].v
             symbol == IF i - 1 < Len(tree.items) - 1 THEN BranchMid
                       ELSE BranchLast
             new_prefix == prefix \o (IF i - 1 < Len(tree.items) - 1
                                      THEN PrefixMid ELSE PrefixLast)
         IN  print(prefix \o symbol \o name)
             \o (IF IsDict(content) THEN display_tree(content, new_prefix)
                 ELSE IF IsStr(content)
                 THEN print(prefix \o symbol \o content.s)
                 ELSE <<>>)
             \o display_tree_loop(tree, prefix, i + 1)

\* The for loop of display_tree from item i on.
display_tree_loop(tree, prefix, i) ==
    IF i > Len(tree.items) THEN <<>>
    ELSE LET name == tree.items[i].k
             content == tree.items[i].v
             symbol == IF i - 1 < Len(tree.items) - 1 THEN BranchMid
                       ELSE BranchLast
             new_prefix == prefix \o (IF i - 1 < Len(tree.items) - 1
                                      THEN PrefixMid ELSE PrefixLast)
         IN  print(prefix \o symbol \o name)
             \o (IF IsDict(content) THEN display_tree(content, new_prefix)
                 ELSE IF IsStr(content)
                 THEN print(prefix \o PrefixLast \o content.s)
                 ELSE <<>>)
             \o display_tree_loop(tree, prefix, i + 1)

\* str(tree) for the else branch: a str is itself, None is "None".
str(v) == IF IsStr(v) THEN v.s ELSE <<78, 111, 110, 101>>

\* Mutant of display_tree: the else branch prints nothing.
display_tree_DictOnly(tree, prefix) ==
    IF IsDict(tree) THEN display_tree_loop(tree, prefix, 1)
    ELSE <<>>

display_tree(tree, prefix) ==
    IF IsDict(tree) THEN display_tree_loop(tree, prefix, 1)
    ELSE print(prefix \o str(tree))

\* ------------------------------------------------------------- json.dump
\* The document is the token stream of the JSON text: punctuation, null and
\* string literals (ensure_ascii=False keeps every character of a name), in
\* the order json.dump writes them.  Indentation is whitespace between
\* tokens.
Tok(t) == [tok |-> t, s |-> <<>>]
TokStr(s) == [tok |-> "string", s |-> s]

RECURSIVE json_dump(_)
RECURSIVE json_dump_items(_, _)

json_dump_items(items, i) ==
    IF i > Len(items) THEN <<>>
    ELSE (IF i > 1 THEN <<Tok(",")>> ELSE <<>>)
         \o <<TokStr(items[i].k), Tok(":")>> \o json_dump(items[i].v)
         \o json_dump_items(items, i + 1)

\* Mutant of json_dump: an empty dict is written as null.
json_dump_EmptyAsNull(v) ==
    IF IsNone(v) \/ (IsDict(v) /\ v.items = <<>>) THEN <<Tok("null")>>
    ELSE IF IsStr(v) THEN <<TokStr(v.s)>>
    ELSE <<Tok("{")>> \o json_dump_items(v.items, 1) \o <<Tok("}")>>

json_dump(v) ==
    IF IsNone(v) THEN <<Tok("null")>>
    ELSE IF IsStr(v) THEN <<TokStr(v.s)>>
    ELSE <<Tok("{")>> \o json_dump_items(v.items, 1) \o <<Tok("}")>>

\* --------------------------------------------------- generate_tree_image
\* The pydot graph: the nodes and edges in the order they were added.
\* add_node and add_edge append; they do not look for an existing identifier.
EmptyGraph == [nodes |-> <<>>, edges |-> <<>>]
add_node(graph, id, label, shape) ==
    [graph EXCEPT !.nodes = Append(@, [id |-> id, label |-> label,
                                       shape |-> shape])]
add_edge(graph, src, dst) ==
    [graph EXCEPT !.edges = Append(@, [src |-> src, dst |-> dst])]

RECURSIVE add_nodes_edges_from_tree(_, _, _)
RECURSIVE add_nodes_edges_loop(_, _, _, _)

\* The for loop of add_nodes_edges_from_tree from item i on.
add_nodes_edges_loop(tree, parent_id, graph, i) ==
    IF i > Len(tree.items) THEN [exc |-> "none", graph |-> graph]
    ELSE LET name == tree.items[i].k
             child == tree.items[i].v
             child_id == parent_id \o Slash \o name
             g1 == add_edge(add_node(graph, child_id, name, "box"),
                            parent_id, child_id)
             leaf_id == child_id \o LeafSuffix
             after ==
                IF IsDict(child)
                THEN add_nodes_edges_from_tree(child, child_id, g1)
                ELSE IF IsStr(child)
                THEN [exc |-> "none",
                      graph |-> add_edge(add_node(g1, leaf_id, child.s,
                                                  "ellipse"),
                                         child_id, leaf_id)]
                ELSE [exc |-> "none", graph |-> g1]
         IN  IF after.exc # "none" THEN after
             ELSE add_nodes_edges_loop(tree, parent_id, after.graph, i + 1)

\* tree.items() exists only on a dict.
add_nodes_edges_from_tree(tree, parent_id, graph) ==
    IF ~IsDict(tree) THEN [exc |-> "AttributeError", graph |-> graph]
    ELSE add_nodes_edges_loop(tree, parent_id, graph, 1)

\* Everything up to graph.write_png.
generate_tree_image(tree, root_label) ==
    LET root_id == root_label
    IN  add_nodes_edges_from_tree(
            tree, root_id, add_node(EmptyGraph, root_id, root_label, "box"))

\* os.path.basename: what follows the last "/".
RECURSIVE basename(_)
basename(path) ==
    IF Len(path) = 0 \/ path[Len(path)] = 47 THEN <<>>
    ELSE Append(basename(SubSeq(path, 1, Len(path) - 1)), path[Len(path)])

\* os.path.basename(directory_to_explore) or directory_to_explore
RootLabel ==
    IF basename(RootPath) # <<>> THEN basename(RootPath) ELSE RootPath

\* ------------------------------------------------------------- the program
VARIABLES
    fs,          \* the filesystem at and below the analyzed directory
    pc,          \* position of the invocation in __main__
    run,         \* number of invocations started so far
    show_hidden, \* args.show_hidden
    max_depth,   \* args.max_depth
    tree,        \* the tree build_tree returned
    out,         \* the lines written to standard output
    doc,         \* the content of directory_tree.json
    graph,       \* the graph handed to write_png
    exc,         \* the exception that ended the invocation, or "none"
    prev         \* tree, out, doc and graph of the previous invocation

vars == <<fs, pc, run, show_hidden, max_depth, tree, out, doc, graph, exc,
          prev>>

NoOutputs == [tree |-> PyNone, out |-> <<>>, doc |-> <<>>,
              graph |-> EmptyGraph]

Init ==
    /\ fs \in {{}, {RootDir}, {RootFile}}
    /\ pc = "idle"
    /\ run = 0
    /\ show_hidden = FALSE
    /\ max_depth = NoMaxDepth
    /\ tree = PyNone
    /\ out = <<>>
    /\ doc = <<>>
    /\ graph = EmptyGraph
    /\ exc = "none"
    /\ prev = NoOutputs

\* The paths the environment may populate before the program runs.
RECURSIVE PathsOfLen(_)
PathsOfLen(n) ==
    IF n = 0 THEN {<<>>}
    ELSE {Append(p, name) : p \in PathsOfLen(n - 1), name \in EntryNames}

EnvPaths == UNION {PathsOfLen(n) : n \in 1..MaxPathLen}
Parent(p) == SubSeq(p, 1, Len(p) - 1)

CanCreate(p) ==
    /\ pc = "idle"
    /\ ~exists(fs, p)
    /\ isdir(fs, Parent(p))
    /\ Cardinality(fs) - 1 < MaxEntries

\* The environment creates a regular file.
Touch(p) ==
    /\ CanCreate(p)
    /\ fs' = fs \cup {FileAt(p)}
    /\ UNCHANGED <<pc, run, show_hidden, max_depth, tree, out, doc, graph,
                   exc, prev>>

\* The environment creates a directory.
Mkdir(p) ==
    /\ CanCreate(p)
    /\ fs' = fs \cup {DirAt(p)}
    /\ UNCHANGED <<pc, run, show_hidden, max_depth, tree, out, doc, graph,
                   exc, prev>>

\* The environment makes listing a directory fail: no read permission
\* (EACCES) or another error (EIO).
SetListing(p, mode) ==
    /\ pc = "idle"
    /\ isdir(fs, p)
    /\ Entry(fs, p).list = "ok"
    /\ mode # "ok"
    /\ fs' = (fs \ {Entry(fs, p)}) \cup {[Entry(fs, p) EXCEPT !.list = mode]}
    /\ UNCHANGED <<pc, run, show_hidden, max_depth, tree, out, doc, graph,
                   exc, prev>>

\* parser.parse_args() and os.path.abspath.
ParseArgs(sh, md) ==
    /\ pc = "idle"
    /\ pc' = "check"
    /\ run' = 1
    /\ show_hidden' = sh
    /\ max_depth' = md
    /\ UNCHANGED <<fs, tree, out, doc, graph, exc, prev>>

\* if not os.path.exists(directory_to_explore): print(...); exit(1)
CheckExists ==
    /\ pc = "check"
    /\ IF ~exists(fs, <<>>)
       THEN /\ out' = out \o print(ErrorTextHead \o RootPath \o ErrorTextTail)
            /\ pc' = "exit1"
       ELSE /\ out' = out
            /\ pc' = "build"
    /\ UNCHANGED <<fs, run, show_hidden, max_depth, tree, doc, graph, exc,
                   prev>>

\* tree = build_tree(directory_to_explore, show_hidden=..., max_depth=...)
BuildTree ==
    /\ pc = "build"
    /\ LET r == build_tree(fs, <<>>, show_hidden, max_depth, 0)
       IN  IF r.exc # "none"
           THEN /\ pc' = "crashed"
                /\ exc' = r.exc
                /\ tree' = tree
           ELSE /\ pc' = "display"
                /\ exc' = exc
                /\ tree' = r.val
    /\ UNCHANGED <<fs, run, show_hidden, max_depth, out, doc, graph, prev>>

\* print(header); display_tree(tree)
DisplayTree ==
    /\ pc = "display"
    /\ out' = out \o print(<<10>> \o HeaderText \o RootPath \o <<10>>)
                  \o display_tree(tree, <<>>)
    /\ pc' = "json"
    /\ UNCHANGED <<fs, run, show_hidden, max_depth, tree, doc, graph, exc,
                   prev>>

\* with open(json_filename, "w") as f: json.dump(tree, f, ...); print(...)
SaveJson ==
    /\ pc = "json"
    /\ LET json_filename == join(<<>>, JsonName)
       IN  IF OpenError(fs, json_filename) # "none"
           THEN /\ pc' = "crashed"
                /\ exc' = OpenError(fs, json_filename)
                /\ UNCHANGED <<fs, doc, out>>
           ELSE /\ fs' = WriteFile(fs, json_filename)
                /\ doc' = json_dump(tree)
                /\ out' = out \o print(<<10>> \o JsonSavedText \o RootPath
                                       \o Slash \o JsonName \o Quote)
                /\ pc' = "png"
                /\ exc' = exc
    /\ UNCHANGED <<run, show_hidden, max_depth, tree, graph, prev>>

\* generate_tree_image(tree, root_label, png_filename); print(...); exit 0
GenerateImage ==
    /\ pc = "png"
    /\ LET png_filename == join(<<>>, PngName)
           r == generate_tree_image(tree, RootLabel)
       IN  IF r.exc # "none"
           THEN /\ pc' = "crashed"
                /\ exc' = r.exc
                /\ UNCHANGED <<fs, graph, out>>
           ELSE IF OpenError(fs, png_filename) # "none"
           THEN /\ pc' = "crashed"
                /\ exc' = OpenError(fs, png_filename)
                /\ UNCHANGED <<fs, graph, out>>
           ELSE /\ graph' = r.graph
                /\ fs' = WriteFile(fs, png_filename)
                /\ out' = out \o print(<<10>> \o PngSavedText \o RootPath
                                       \o Slash \o PngName \o Quote)
                /\ pc' = "exit0"
                /\ exc' = exc
    /\ UNCHANGED <<run, show_hidden, max_depth, tree, doc, prev>>

Finished == pc \in {"exit0", "exit1", "crashed"}

\* The program is invoked again on the same directory with the same flags.
Rerun ==
    /\ Finished
    /\ run < MaxRuns
    /\ run' = run + 1
    /\ pc' = "check"
    /\ prev' = [tree |-> tree, out |-> out, doc |-> doc, graph |-> graph]
    /\ tree' = PyNone
    /\ out' = <<>>
    /\ doc' = <<>>
    /\ graph' = EmptyGraph
    /\ exc' = "none"
    /\ UNCHANGED <<fs, show_hidden, max_depth>>

DepthArgs == {NoMaxDepth} \cup {MaxDepthOf(k) : k \in 0..MaxDepthArg}

Next ==
    \/ \E p \in EnvPaths : Touch(p)
    \/ \E p \in EnvPaths : Mkdir(p)
    \/ \E p \in EnvPaths \cup {<<>>}, mode \in ListModes : SetListing(p, mode)
    \/ \E sh \in BOOLEAN, md \in DepthArgs : ParseArgs(sh, md)
    \/ CheckExists
    \/ BuildTree
    \/ DisplayTree
    \/ SaveJson
    \/ GenerateImage
    \/ Rerun

Spec == Init /\ [][Next]_vars

\* ============================================================ properties
\* What the properties below say about a tree, a document and a filesystem.

\* Reading a document back (json.load of its token stream):
\* [v |-> value, next |-> index after it].
RECURSIVE json_parse_value(_, _)
RECURSIVE json_parse_members(_, _, _)

json_parse_members(toks, i, d) ==
    IF toks[i].tok = "}" THEN [v |-> d, next |-> i + 1]
    ELSE LET j == IF toks[i].tok = "," THEN i + 1 ELSE i
             member == json_parse_value(toks, j + 2)
         IN  json_parse_members(toks, member.next,
                                DictSet(d, toks[j].s, member.v))

json_parse_value(toks, i) ==
    IF toks[i].tok = "null" THEN [v |-> PyNone, next |-> i + 1]
    ELSE IF toks[i].tok = "string" THEN [v |-> PyStr(toks[i].s), next |-> i + 1]
    ELSE json_parse_members(toks, i + 1, PyDict(<<>>))

json_load(toks) == json_parse_value(toks, 1).v

Missing == [t |-> "missing", s |-> <<>>, items |-> <<>>]

\* The value found in tree t by following the names of path p.
RECURSIVE TreeAt(_, _)
TreeAt(t, p) ==
    IF p = <<>> THEN t
    ELSE IF IsDict(t) /\ DictHas(t, p[1])
    THEN TreeAt(DictGet(t, p[1]), Tail(p))
    ELSE Missing

\* Tree t with the value at path p replaced by v.
RECURSIVE TreeReplace(_, _, _)
TreeReplace(t, p, v) ==
    IF p = <<>> THEN v
    ELSE DictSet(t, p[1], TreeReplace(DictGet(t, p[1]), Tail(p), v))

\* The paths of all the keys of tree t.
RECURSIVE TreePaths(_)
TreePaths(t) ==
    IF ~IsDict(t) THEN {}
    ELSE UNION {{<<t.items[i].k>>}
                \cup {<<t.items[i].k>> \o q : q \in TreePaths(t.items[i].v)}
                : i \in 1..Len(t.items)}

\* The nodes of tree t below its root: one per key, one per sentinel string.
RECURSIVE NodeCount(_)
RECURSIVE NodeCountItems(_, _)
NodeCountItems(items, i) ==
    IF i > Len(items) THEN 0
    ELSE 1 + NodeCount(items[i].v) + NodeCountItems(items, i + 1)
NodeCount(t) ==
    IF IsStr(t) THEN 1
    ELSE IF IsDict(t) THEN NodeCountItems(t.items, 1)
    ELSE 0

\* The nodes of tree t in depth-first order, children in the dict's order:
\* label, whether it is a key ("entry") or a sentinel string, and its value.
RECURSIVE Preorder(_)
RECURSIVE PreorderItems(_, _)
PreorderItems(items, i) ==
    IF i > Len(items) THEN <<>>
    ELSE <<[label |-> items[i].k, kind |-> "entry", val |-> items[i].v]>>
         \o Preorder(items[i].v) \o PreorderItems(items, i + 1)
Preorder(t) ==
    IF IsStr(t) THEN <<[label |-> t.s, kind |-> "sentinel", val |-> PyNone]>>
    ELSE IF IsDict(t) THEN PreorderItems(t.items, 1)
    ELSE <<>>

\* A hidden name: its first character is ".".
HiddenName(n) == n # <<>> /\ Head(n) = 46
HiddenPath(p) == \E i \in 1..Len(p) : HiddenName(p[i])
WithinDepth(n) == ~max_depth.given \/ n < max_depth.k

\* Directory p of filesystem fsys is one the walk lists: it and all its
\* ancestors are visible directories above the depth limit, and all its
\* ancestors could be listed.
Listed(fsys, p) ==
    /\ isdir(fsys, p)
    /\ show_hidden \/ ~HiddenPath(p)
    /\ WithinDepth(Len(p))
    /\ \A n \in 0..(Len(p) - 1) : Entry(fsys, SubSeq(p, 1, n)).list = "ok"

\* Entry p of filesystem fsys is one the walk meets in a listing.
Reached(fsys, p) ==
    /\ p # <<>>
    /\ exists(fsys, p)
    /\ show_hidden \/ ~HiddenPath(p)
    /\ Listed(fsys, Parent(p))
    /\ Entry(fsys, Parent(p)).list = "ok"

\* The directories the walk is called on: the analyzed one and the reached.
Visited(fsys, p) == isdir(fsys, p) /\ (p = <<>> \/ Reached(fsys, p))

VisibleNames(fsys, p) ==
    {n \in listdir(fsys, p).names : show_hidden \/ ~HiddenName(n)}

AccessDeniedDict == PyDict(<<[k |-> AccessDeniedLabel, v |-> PyNone]>>)

\* build_tree has returned and nothing was written to the directory since.
JustBuilt == pc \in {"display", "json"}

\* The lines display_tree printed, once it has.
TreeLines == SubSeq(out, 4, Len(out))
EndsWith(line, label) ==
    /\ Len(line) >= Len(label)
    /\ SubSeq(line, Len(line) - Len(label) + 1, Len(line)) = label
\* What precedes the label on a line that ends with it.
Lead(line, label) == SubSeq(line, 1, Len(line) - Len(label))
HasGlyph(line) ==
    \E i \in 1..Len(line) : line[i] \in {BranchMid[1], BranchLast[1]}

\* ---------------------------------------------------------------------- C1
\* C1: when the target path is a directory and no listing fails with an
\* error other than a permission error, the invocation ends with exit status
\* zero for every show_hidden and every max_depth >= 0.
C1_ExistingPathExitsZero ==
    (Finished /\ isdir(fs, <<>>) /\ \A e \in fs : e.list # "EIO")
        => pc = "exit0"

\* ---------------------------------------------------------------------- C2
\* C2: with max_depth = k the tree holds no entry more than k edges below the
\* root, and every directory the walk is called on exactly k edges below the
\* root is replaced by the depth-limit marker.
C2_DepthLimit ==
    (JustBuilt /\ max_depth.given) =>
        /\ \A p \in TreePaths(tree) : Len(p) <= max_depth.k
        /\ \A e \in fs :
              (Visited(fs, e.path) /\ Len(e.path) = max_depth.k)
                  => TreeAt(tree, e.path) = PyStr(DepthMarker)

C2_Witness ==
    /\ pc = "display"
    /\ max_depth = MaxDepthOf(1)
    /\ \E e \in fs : /\ Len(e.path) = 2
                     /\ Visited(fs, Parent(e.path))
                     /\ Entry(fs, Parent(e.path)).list = "ok"

\* ---------------------------------------------------------------------- C3
\* The shape of document d against filesystem fsys; denied is what a
\* directory whose listing was denied serializes to.
DocShape(fsys, d, denied) ==
    \A e \in fsys :
        (e.path = <<>> \/ Reached(fsys, e.path)) =>
            LET v == TreeAt(d, e.path)
            IN  IF e.kind = "file" THEN IsNone(v)
                ELSE IF ~WithinDepth(Len(e.path)) THEN v = PyStr(DepthMarker)
                ELSE IF e.list = "EACCES" THEN v = denied
                ELSE /\ IsDict(v)
                     /\ Len(v.items) = Cardinality(VisibleNames(fsys, e.path))
                     /\ \A n \in VisibleNames(fsys, e.path) : DictHas(v, n)

\* C3 (as claimed): the document written by json.dump is a mapping for a
\* directory, the bare sentinel string for a depth-limited directory and for
\* a directory whose listing was denied, and null for a file.
C3_DeniedIsBareString ==
    [][(SaveJson /\ pc' = "png") => DocShape(fs, json_load(doc'), PyStr(AccessDeniedLabel))]_vars

\* C3 (amended): as above, except that a directory whose listing was denied
\* is the mapping {"🚫 Access Denied": null}; a file is null and an empty
\* directory is the empty mapping.
C3_DocumentShape ==
    [][(SaveJson /\ pc' = "png") => DocShape(fs, json_load(doc'), AccessDeniedDict)]_vars

C3_Witness ==
    /\ pc = "png"
    /\ \E p, q, r \in TreePaths(json_load(doc)) :
          /\ TreeAt(json_load(doc), p) = AccessDeniedDict
          /\ TreeAt(json_load(doc), q) = PyDict(<<>>)
          /\ IsNone(TreeAt(json_load(doc), r))
          /\ r[Len(r)] # AccessDeniedLabel

\* ---------------------------------------------------------------------- C4
\* C4: the graph has exactly one node per tree node (the root included) and
\* no two of them share an identifier.
C4_UniqueGraphIds ==
    pc = "exit0" =>
        /\ Len(graph.nodes) = NodeCount(tree) + 1
        /\ \A i, j \in 1..Len(graph.nodes) :
              i # j => graph.nodes[i].id # graph.nodes[j].id

\* ---------------------------------------------------------------------- C5
\* Filesystem fsys with directory p listable and emptied.
Opened(fsys, p) ==
    {e \in fsys : ~(Len(e.path) > Len(p) /\ SubSeq(e.path, 1, Len(p)) = p)
                  /\ e.path # p}
    \cup {DirAt(p)}

\* C5: a visited directory whose listing is denied becomes the dict holding
\* only the access-denied leaf and the rest of the tree is what it would be
\* if that directory were listable and empty; the build raises exactly when
\* a visited directory's listing fails otherwise, and then with that error.
C5_PermissionAbsorbed ==
    /\ JustBuilt =>
          \A e \in fs :
              (Listed(fs, e.path) /\ e.list = "EACCES") =>
                  /\ TreeAt(tree, e.path) = AccessDeniedDict
                  /\ tree = TreeReplace(
                        build_tree(Opened(fs, e.path), <<>>, show_hidden,
                                   max_depth, 0).val,
                        e.path, AccessDeniedDict)
    /\ (pc \in {"display", "json", "png", "exit0", "crashed"}
            /\ isdir(fs, <<>>)) =>
          ((pc = "crashed" /\ exc = "OSError")
              <=> \E e \in fs : Listed(fs, e.path) /\ e.list = "EIO")

C5_Witness ==
    /\ pc = "display"
    /\ \E e \in fs : /\ e.path # <<>>
                     /\ Listed(fs, e.path)
                     /\ e.list = "EACCES"
                     /\ \E c \in fs : Len(c.path) = 2 /\ Parent(c.path) = e.path
                     /\ Len(tree.items) > 1

\* ---------------------------------------------------------------------- C6
\* C6: without show_hidden no key of the tree is a hidden name, nothing from
\* below a hidden directory is in the tree, and a listed directory has as
\* many keys as visible entries; with show_hidden every entry of a listed
\* directory is in the tree, the hidden ones included.
C6_HiddenEntries ==
    JustBuilt =>
        /\ ~show_hidden =>
              /\ \A p \in TreePaths(tree) : ~HiddenPath(p)
              /\ \A e \in fs :
                    (Listed(fs, e.path) /\ e.list = "ok") =>
                        Len(TreeAt(tree, e.path).items)
                            = Cardinality({n \in listdir(fs, e.path).names :
                                              ~HiddenName(n)})
        /\ show_hidden =>
              \A e \in fs :
                  (e.path # <<>> /\ Listed(fs, Parent(e.path))
                        /\ Entry(fs, Parent(e.path)).list = "ok")
                      => e.path \in TreePaths(tree)

C6_Witness ==
    /\ pc = "display"
    /\ ~show_hidden
    /\ max_depth = NoMaxDepth
    /\ \E e \in fs : /\ Len(e.path) = 2
                     /\ HiddenName(e.path[1])
                     /\ Entry(fs, <<e.path[1]>>).list = "ok"
    /\ Len(tree.items) > 0

\* ---------------------------------------------------------------------- C7
\* C7: a second invocation over the same directory with the same flags
\* yields the same tree, text, document and graph as the first.
C7_RepeatedRunsAgree ==
    (run = 2 /\ pc = "exit0") =>
        /\ tree = prev.tree
        /\ out = prev.out
        /\ doc = prev.doc
        /\ graph = prev.graph

\* ---------------------------------------------------------------------- C8
IsAccessDeniedNode(n) == n.kind = "entry" /\ n.label = AccessDeniedLabel

\* C8 (as claimed): a line of the text render has no branch glyph exactly
\* when its node is a depth-limit or an access-denied leaf.
C8_SentinelsHaveNoGlyph ==
    pc = "json" =>
        /\ Len(TreeLines) = Len(Preorder(tree))
        /\ \A i \in 1..Len(TreeLines) :
              LET n == Preorder(tree)[i]
              IN  /\ EndsWith(TreeLines[i], n.label)
                  /\ (n.kind = "sentinel" \/ IsAccessDeniedNode(n))
                        <=> ~HasGlyph(TreeLines[i])

\* C8 (amended): a depth-limit leaf is printed as its label without a branch
\* glyph, after the prefix of its directory's line and four spaces (with no
\* indentation when it stands for the root); an access-denied leaf is printed
\* like a last child, its label after "└── "; every file and directory child
\* is printed with a branch glyph before its name.
C8_TextRenderOfLeaves ==
    pc = "json" =>
        /\ Len(TreeLines) = Len(Preorder(tree))
        /\ \A i \in 1..Len(TreeLines) :
              LET n == Preorder(tree)[i]
                  line == TreeLines[i]
                  lead == Lead(line, n.label)
              IN  /\ EndsWith(line, n.label)
                  /\ n.kind = "sentinel" =>
                        /\ ~HasGlyph(line)
                        /\ IF i = 1 THEN lead = <<>>
                           ELSE LET owner == Preorder(tree)[i - 1]
                                    above == Lead(TreeLines[i - 1], owner.label)
                                IN  /\ owner.kind = "entry"
                                    /\ Len(lead) = Len(above)
                                    /\ lead = SubSeq(above, 1, Len(above) - 4)
                                                \o PrefixLast
                  /\ IsAccessDeniedNode(n) =>
                        /\ Len(lead) >= 4
                        /\ SubSeq(lead, Len(lead) - 3, Len(lead)) = BranchLast
                  /\ n.kind = "entry" =>
                        /\ Len(lead) >= 4
                        /\ SubSeq(lead, Len(lead) - 3, Len(lead))
                              \in {BranchMid, BranchLast}

C8_Witness ==
    /\ pc = "json"
    /\ \E i, j, k \in 1..Len(Preorder(tree)) :
          /\ Preorder(tree)[i].kind = "sentinel"
          /\ i > 1
          /\ IsAccessDeniedNode(Preorder(tree)[j])
          /\ Preorder(tree)[k].kind = "entry"
          /\ IsNone(Preorder(tree)[k].val)
          /\ k # j

\* ---------------------------------------------------------------------- C9
NonBlank(lines) == {i \in 1..Len(lines) : lines[i] # <<>>}

\* The nodes the walk has to report for filesystem fsys: each entry reached,
\* and one sentinel leaf per visited directory that is at the depth limit or
\* whose listing is denied.
ExpectedNodes(fsys) ==
    Cardinality({e \in fsys : Reached(fsys, e.path)})
    + Cardinality({e \in fsys :
                      /\ Visited(fsys, e.path)
                      /\ \/ ~WithinDepth(Len(e.path))
                         \/ e.list = "EACCES"})

\* C9: the text output is the header line and one line per node of the tree
\* below the root, sentinel leaves included.
C9_OneLinePerNode ==
    pc = "json" =>
        /\ Cardinality(NonBlank(out)) = NodeCount(tree) + 1
        /\ out[2] = HeaderText \o RootPath
        /\ Len(TreeLines) = NodeCount(tree)
        /\ isdir(fs, <<>>) => Len(TreeLines) = ExpectedNodes(fs)
        /\ NonBlank(TreeLines) = 1..Len(TreeLines)

C9_Witness ==
    /\ pc = "json"
    /\ \E i, j \in 1..Len(Preorder(tree)) :
          /\ Preorder(tree)[i].kind = "sentinel"
          /\ IsAccessDeniedNode(Preorder(tree)[j])
    /\ Len(TreeLines) >= 4

\* --------------------------------------------------------------------- C10
\* The keys of every dict of tree t are in strictly ascending order.
RECURSIVE KeysAscending(_)
KeysAscending(t) ==
    IsDict(t) =>
        /\ \A i \in 1..(Len(t.items) - 1) :
              StrLess(t.items[i].k, t.items[i + 1].k)
        /\ \A i \in 1..Len(t.items) : KeysAscending(t.items[i].v)

\* The keys of a document, in the order they are written.
RECURSIVE KeyTokens(_, _)
KeyTokens(toks, i) ==
    IF i >= Len(toks) THEN <<>>
    ELSE (IF toks[i].tok = "string" /\ toks[i + 1].tok = ":"
          THEN <<toks[i].s>> ELSE <<>>) \o KeyTokens(toks, i + 1)

RECURSIVE PreorderKeys(_, _)
PreorderKeys(nodes, i) ==
    IF i > Len(nodes) THEN <<>>
    ELSE (IF nodes[i].kind = "entry" THEN <<nodes[i].label>> ELSE <<>>)
         \o PreorderKeys(nodes, i + 1)

\* C10: at every level of the tree the children are in ascending order of
\* name, the lines of the text render follow the children in that order and
\* so do the keys of the document.
C10_SortedEverywhere ==
    pc = "png" =>
        /\ KeysAscending(tree)
        /\ LET lines == SubSeq(out, 4, Len(out) - 2)
           IN  /\ Len(lines) = Len(Preorder(tree))
               /\ \A i \in 1..Len(lines) :
                     EndsWith(lines[i], Preorder(tree)[i].label)
        /\ KeyTokens(doc, 1) = PreorderKeys(Preorder(tree), 1)
        /\ json_load(doc) = tree

C10_Witness ==
    /\ pc = "png"
    /\ Len(tree.items) = 3
    /\ tree.items[1].k = NameB
    /\ tree.items[2].k = NameA
    /\ tree.items[3].k = NameALeaf

====
